---- MODULE Spec2Model ----
(***************************************************************************)
(* Model of trivy_offline_scanner.py: the TrivyOfflineScanner object, its  *)
(* three directories, and the external processes it launches.              *)
(*                                                                         *)
(* Every public method is one action.  What the outside world answers (a   *)
(* docker command that cannot be launched, exits non-zero or exits zero,   *)
(* the text on its stdout, a filesystem call that raises) is drawn with \E *)
(* from small sets.  The operation that ran last, its arguments, what the  *)
(* world answered, the argv of every subprocess.run call it made and what  *)
(* it returned or raised are kept in the variable last.                    *)
(***************************************************************************)
EXTENDS Integers, Sequences, FiniteSets, TLC

\* ------------------------------------------------------------------ bounds
\* longest image list handed to scan_multiple_images
MaxImages == 2
\* most result targets in a structured scan output given to the summary
MaxTargets == 2
\* most vulnerability entries of one result target
MaxVulns == 2

\* ------------------------------------------------------- values and inputs
\* str(self.db_path), str(self.cache_path)
db_path == "/app/trivy-db"
cache_path == "/app/trivy-cache"

\* files of the database tree carried by the distribution image (/trivy-db/*)
ImageTree == {"trivy.db", "metadata.json"}
\* a file only an earlier database left behind
StaleEntries == {"old.db"}
AllEntries == ImageTree \cup StaleEntries

Images == {"nginx:latest", "redis:7"}
Formats == {"json", "table"}

\* Optional[List[str]]: None, or a list
NoneOpt == [isNone |-> TRUE, items |-> <<>>]
Some(s) == [isNone |-> FALSE, items |-> s]
\* Python truthiness of an Optional[List[str]]: None and [] are falsy
Truthy(o) == ~o.isNone /\ o.items # <<>>

SeverityArgs == {NoneOpt, Some(<<>>), Some(<<"CRITICAL", "HIGH">>)}
VulnTypeArgs == {NoneOpt, Some(<<"os", "library">>)}

\* Optional[str] output_file: None, or a plain file name under the results
\* directory, which open(..., 'w') creates or truncates
NoFileArg == "<None>"
OutputFiles == {"report.json"}
OutputArgs == {NoFileArg} \cup OutputFiles

\* what the scanner process may print on stdout
Stdouts == {"{\"Results\":[]}", "null", "Total: 0 (CRITICAL: 0)"}
\* content of a path of the results directory that holds no file
NoFile == "<absent>"

\* how one subprocess.run call ends
LaunchFail == "launch-failed"
NonZero == "non-zero-exit"
ExitZero == "exit-zero"

\* what the world answers to the one scanner process of a scan_image call
ScanOutcomes ==
    {[proc |-> LaunchFail, stdout |-> ""], [proc |-> NonZero, stdout |-> ""]}
        \cup {[proc |-> ExitZero, stdout |-> s] : s \in Stdouts}

\* return values and exceptions
NoException == "<none>"
None == [kind |-> "None", val |-> ""]
PyBool(b) == [kind |-> "bool", val |-> IF b THEN "True" ELSE "False"]
PyStr(s) == [kind |-> "str", val |-> s]
PyDict(s) == [kind |-> "dict", val |-> s]
PyList(l) == [kind |-> "list", val |-> l]

VARIABLES
    dbExists,       \* self.db_path.exists()
    dbEntries,      \* the entries of the database directory
    resultsDir,     \* content of each path of self.results_dir
    docker_client,  \* self.docker_client: "client" or "None"
    last,           \* the operation that completed last
    scan_results,   \* the argument of get_vulnerability_summary
    summary         \* what get_vulnerability_summary answered for it

vars == <<dbExists, dbEntries, resultsDir, docker_client, last, scan_results, summary>>
scannerVars == <<dbExists, dbEntries, resultsDir, docker_client, last>>
summaryVars == <<scan_results, summary>>

\* ------------------------------------------------------------ pure helpers
RECURSIVE Join(_, _)
\* sep.join(s)
Join(s, sep) ==
    IF s = <<>> THEN ""
    ELSE IF Len(s) = 1 THEN s[1]
    ELSE s[1] \o sep \o Join(Tail(s), sep)

\* json.loads(text): the decoded value, or JSONDecodeError
JsonLoads(text) ==
    CASE text = "{\"Results\":[]}" -> [ok |-> TRUE, value |-> PyDict("Results=[]")]
      [] text = "null" -> [ok |-> TRUE, value |-> None]
      [] OTHER -> [ok |-> FALSE, value |-> None]

\* ------------------------------------------------------------ scan_image
\* the directory test without the emptiness test
HasDatabaseExistsOnly(exists, entries) == exists

\* "Check if database exists": the directory exists and has an entry
HasDatabase(exists, entries) == exists /\ entries # {}

\* the argv without the setting that stops the scanner's remote update
ScanCommandWithoutSkipUpdate(image, format, severity, vuln_type) ==
    << "docker", "run", "--rm",
       "-v", "/var/run/docker.sock:/var/run/docker.sock:ro",
       "-v", cache_path \o ":/root/.cache/trivy",
       "-v", db_path \o ":/trivy-db:ro",
       "-e", "TRIVY_CACHE_DIR=/root/.cache/trivy",
       "-e", "TRIVY_DB_REPOSITORY=file:///trivy-db",
       "aquasec/trivy:latest",
       "image",
       "--format", format >>
    \o (IF Truthy(severity) THEN <<"--severity", Join(severity.items, ",")>> ELSE <<>>)
    \o (IF Truthy(vuln_type) THEN <<"--vuln-type", Join(vuln_type.items, ",")>> ELSE <<>>)
    \o <<image>>

\* the argv scan_image builds
ScanCommand(image, format, severity, vuln_type) ==
    << "docker", "run", "--rm",
       "-v", "/var/run/docker.sock:/var/run/docker.sock:ro",
       "-v", cache_path \o ":/root/.cache/trivy",
       "-v", db_path \o ":/trivy-db:ro",
       "-e", "TRIVY_CACHE_DIR=/root/.cache/trivy",
       "-e", "TRIVY_DB_REPOSITORY=file:///trivy-db",
       "-e", "TRIVY_SKIP_UPDATE=true",
       "aquasec/trivy:latest",
       "image",
       "--format", format >>
    \o (IF Truthy(severity) THEN <<"--severity", Join(severity.items, ",")>> ELSE <<>>)
    \o (IF Truthy(vuln_type) THEN <<"--vuln-type", Join(vuln_type.items, ",")>> ELSE <<>>)
    \o <<image>>

\* the results directory after "Save output if requested"
SaveOutput(results, output_file, stdout) ==
    IF output_file # NoFileArg /\ output_file # ""
    THEN [results EXCEPT ![output_file] = stdout]
    ELSE results

\* the parse with the decode error leaving scan_image
ParseAndReturnRaising(format, stdout) ==
    IF format = "json"
    THEN IF JsonLoads(stdout).ok
         THEN [ret |-> JsonLoads(stdout).value, raised |-> NoException]
         ELSE [ret |-> None, raised |-> "JSONDecodeError"]
    ELSE [ret |-> PyStr(stdout), raised |-> NoException]

\* "Parse and return results", inside the try whose handler returns None
ParseAndReturn(format, stdout) ==
    IF format = "json"
    THEN IF JsonLoads(stdout).ok
         THEN [ret |-> JsonLoads(stdout).value, raised |-> NoException]
         ELSE [ret |-> None, raised |-> NoException]
    ELSE [ret |-> PyStr(stdout), raised |-> NoException]

\* the output saved before the exit code is looked at
AfterRunSaveFirst(results, format, output_file, out) ==
    IF out.proc = LaunchFail
    THEN [ret |-> None, raised |-> NoException, results |-> results]
    ELSE IF out.proc = NonZero
    THEN [ret |-> None, raised |-> NoException,
          results |-> SaveOutput(results, output_file, out.stdout)]
    ELSE [ret |-> ParseAndReturn(format, out.stdout).ret,
          raised |-> ParseAndReturn(format, out.stdout).raised,
          results |-> SaveOutput(results, output_file, out.stdout)]

\* what follows subprocess.run in scan_image, by the outcome of the process
AfterRun(results, format, output_file, out) ==
    IF out.proc = LaunchFail
    THEN [ret |-> None, raised |-> NoException, results |-> results]
    ELSE IF out.proc = NonZero
    THEN [ret |-> None, raised |-> NoException, results |-> results]
    ELSE LET p == ParseAndReturn(format, out.stdout)
         IN  [ret |-> p.ret, raised |-> p.raised,
              results |-> SaveOutput(results, output_file, out.stdout)]

\* scan_image(image, format, severity, output_file, vuln_type) with the world
\* answering out: the return value, the exception that leaves the method,
\* the subprocess.run calls made and the results directory afterwards
ScanImageOp(exists, entries, results, req, out) ==
    IF ~HasDatabase(exists, entries)
    THEN [ret |-> None, raised |-> NoException, cmds |-> <<>>, results |-> results]
    ELSE LET cmd == ScanCommand(req.image, req.format, req.severity, req.vuln_type)
             a == AfterRun(results, req.format, req.output_file, out)
         IN  [ret |-> a.ret, raised |-> a.raised, cmds |-> <<cmd>>, results |-> a.results]

ScanRequests ==
    [image : Images, format : Formats, severity : SeverityArgs,
     vuln_type : VulnTypeArgs, output_file : OutputArgs]

ScanImage ==
    \E req \in ScanRequests, out \in ScanOutcomes :
        LET r == ScanImageOp(dbExists, dbEntries, resultsDir, req, out)
        IN  /\ last' = [op |-> "scan_image", req |-> req, env |-> out,
                        ret |-> r.ret, raised |-> r.raised, cmds |-> r.cmds]
            /\ resultsDir' = r.results
            /\ UNCHANGED <<dbExists, dbEntries, docker_client, summaryVars>>

\* -------------------------------------------------------- setup_database
PullCommand == <<"docker", "pull", "aquasec/trivy-db:latest">>
ExtractCommand ==
    << "docker", "run", "--rm",
       "-v", db_path \o ":/output",
       "aquasec/trivy-db:latest",
       "sh", "-c", "cp -r /trivy-db/* /output/" >>

\* what the world answers to setup_database: the pull, the extraction run,
\* the files a failing extraction copied before it failed, and whether the
\* runtime created a missing bind-mount source before the run failed
SetupEnvs ==
    {[pull |-> p, run |-> ExitZero, copied |-> ImageTree, created |-> TRUE] :
        p \in {LaunchFail, NonZero, ExitZero}}
    \cup {[pull |-> ExitZero, run |-> LaunchFail, copied |-> {}, created |-> FALSE]}
    \cup {[pull |-> ExitZero, run |-> NonZero, copied |-> c, created |-> b] :
            c \in (SUBSET ImageTree) \ {ImageTree}, b \in BOOLEAN}

\* setup_database(): subprocess.run(..., check=True) raises CalledProcessError
\* on a non-zero exit, which the handler turns into False, and
\* FileNotFoundError when the binary cannot be launched, which no handler of
\* setup_database catches
SetupDatabaseOp(exists, entries, env) ==
    IF env.pull = LaunchFail
    THEN [ret |-> None, raised |-> "FileNotFoundError", exists |-> exists,
          entries |-> entries, cmds |-> <<PullCommand>>, steps |-> <<"pull">>]
    ELSE IF env.pull = NonZero
    THEN [ret |-> PyBool(FALSE), raised |-> NoException, exists |-> exists,
          entries |-> entries, cmds |-> <<PullCommand>>, steps |-> <<"pull">>]
    ELSE IF env.run = LaunchFail
    THEN [ret |-> None, raised |-> "FileNotFoundError", exists |-> exists,
          entries |-> entries, cmds |-> <<PullCommand, ExtractCommand>>,
          steps |-> <<"pull", "extract">>]
    ELSE IF env.run = NonZero
    THEN [ret |-> PyBool(FALSE), raised |-> NoException,
          exists |-> (exists \/ env.created),
          entries |-> IF exists \/ env.created THEN entries \cup env.copied ELSE {},
          cmds |-> <<PullCommand, ExtractCommand>>, steps |-> <<"pull", "extract">>]
    ELSE [ret |-> PyBool(TRUE), raised |-> NoException, exists |-> TRUE,
          entries |-> entries \cup ImageTree,
          cmds |-> <<PullCommand, ExtractCommand>>, steps |-> <<"pull", "extract">>]

SetupDatabase ==
    \E env \in SetupEnvs :
        LET r == SetupDatabaseOp(dbExists, dbEntries, env)
        IN  /\ last' = [op |-> "setup_database", env |-> env, ret |-> r.ret,
                        raised |-> r.raised, cmds |-> r.cmds, steps |-> r.steps]
            /\ dbExists' = r.exists
            /\ dbEntries' = r.entries
            /\ UNCHANGED <<resultsDir, docker_client, summaryVars>>

\* ------------------------------------------------------- update_database
\* the second half of update_database, "return self.setup_database()" inside
\* the try whose handler (except Exception) returns False
ExtractNew(exists, entries, env, cmds, steps) ==
    LET s == SetupDatabaseOp(exists, entries, env)
    IN  [ret |-> IF s.raised # NoException THEN PyBool(FALSE) ELSE s.ret,
         raised |-> NoException, exists |-> s.exists, entries |-> s.entries,
         cmds |-> cmds \o s.cmds, steps |-> steps \o s.steps]

\* what the world answers to update_database: the pull, whether rmtree and
\* mkdir raise, the entries a failing rmtree had not removed yet, and what it
\* answers to the setup_database call
UpdateEnvs(entries) ==
    {[pull |-> p, rmtree |-> "ok", remaining |-> {}, mkdir |-> "ok",
      setup |-> [pull |-> ExitZero, run |-> ExitZero, copied |-> ImageTree,
                 created |-> TRUE]] : p \in {LaunchFail, NonZero}}
    \cup {[pull |-> ExitZero, rmtree |-> "raise", remaining |-> r, mkdir |-> "ok",
           setup |-> [pull |-> ExitZero, run |-> ExitZero, copied |-> ImageTree,
                      created |-> TRUE]] : r \in SUBSET entries}
    \cup {[pull |-> ExitZero, rmtree |-> "ok", remaining |-> {}, mkdir |-> "raise",
            setup |-> [pull |-> ExitZero, run |-> ExitZero, copied |-> ImageTree,
                       created |-> TRUE]]}
    \cup {[pull |-> ExitZero, rmtree |-> "ok", remaining |-> {}, mkdir |-> "ok",
           setup |-> s] : s \in SetupEnvs}

\* the old database cleared before the pull
UpdateDatabaseOpDeleteFirst(exists, entries, env) ==
    IF env.pull # ExitZero
    THEN [ret |-> PyBool(FALSE), raised |-> NoException, exists |-> exists,
          entries |-> {}, cmds |-> <<PullCommand>>,
          steps |-> IF exists THEN <<"rmtree", "mkdir", "pull">> ELSE <<"pull">>]
    ELSE ExtractNew(exists, {}, env.setup, <<PullCommand>>,
                    IF exists THEN <<"rmtree", "mkdir", "pull">> ELSE <<"pull">>)

\* update_database()
UpdateDatabaseOp(exists, entries, env) ==
    IF env.pull # ExitZero
    THEN [ret |-> PyBool(FALSE), raised |-> NoException, exists |-> exists,
          entries |-> entries, cmds |-> <<PullCommand>>, steps |-> <<"pull">>]
    ELSE IF exists
    THEN IF env.rmtree = "raise"
         THEN [ret |-> PyBool(FALSE), raised |-> NoException, exists |-> TRUE,
               entries |-> entries \cap env.remaining, cmds |-> <<PullCommand>>,
               steps |-> <<"pull", "rmtree">>]
         ELSE IF env.mkdir = "raise"
         THEN [ret |-> PyBool(FALSE), raised |-> NoException, exists |-> FALSE,
               entries |-> {}, cmds |-> <<PullCommand>>,
               steps |-> <<"pull", "rmtree", "mkdir">>]
         ELSE ExtractNew(TRUE, {}, env.setup, <<PullCommand>>,
                         <<"pull", "rmtree", "mkdir">>)
    ELSE ExtractNew(FALSE, {}, env.setup, <<PullCommand>>, <<"pull">>)

UpdateDatabase ==
    \E env \in UpdateEnvs(dbEntries) :
        LET r == UpdateDatabaseOp(dbExists, dbEntries, env)
        IN  /\ last' = [op |-> "update_database", env |-> env, ret |-> r.ret,
                        raised |-> r.raised, cmds |-> r.cmds, steps |-> r.steps]
            /\ dbExists' = r.exists
            /\ dbEntries' = r.entries
            /\ UNCHANGED <<resultsDir, docker_client, summaryVars>>

\* ----------------------------------------------------- list_local_images
\* image ids as the runtime reports them, character by character
ImageIdA == <<"s", "h", "a", "2", "5", "6", ":", "0", "a", "1", "b", "2", "c", "3">>
ImageIdB == <<"s", "h", "a", "2", "5", "6", ":", "9", "f", "8", "e", "7", "d", "6">>

\* image.id[:12]
ShortId(id) == SubSeq(id, 1, IF Len(id) < 12 THEN Len(id) ELSE 12)

\* what docker_client.images.list() may answer: an exception, or the images
\* (hasSize: whether image.attrs holds "Size")
RuntimeAnswers ==
    { [raises |-> TRUE, images |-> <<>>],
      [raises |-> FALSE, images |-> <<>>],
      [raises |-> FALSE, images |->
          << [id |-> ImageIdA, tags |-> <<"a:1", "a:2">>, size |-> 10485760,
              created |-> "2024-01-01T00:00:00Z", hasSize |-> TRUE],
             [id |-> ImageIdB, tags |-> <<>>, size |-> 512,
              created |-> "2024-02-02T00:00:00Z", hasSize |-> TRUE] >>],
      [raises |-> FALSE, images |->
          << [id |-> ImageIdB, tags |-> <<"b:1">>, size |-> 0,
              created |-> "2024-02-02T00:00:00Z", hasSize |-> FALSE] >>] }

RECURSIVE TagRecords(_, _)
\* the records of one image, one per tag
TagRecords(image, tags) ==
    IF tags = <<>> THEN <<>>
    ELSE << [id |-> ShortId(image.id), tag |-> Head(tags), size |-> image.size,
             created |-> image.created] >> \o TagRecords(image, Tail(tags))

RECURSIVE ImageRecords(_)
\* the loop over images: [ok, list]; ok is FALSE when image.attrs["Size"]
\* raises KeyError
ImageRecords(images) ==
    IF images = <<>> THEN [ok |-> TRUE, list |-> <<>>]
    ELSE LET image == Head(images)
             tags == IF image.tags # <<>> THEN image.tags ELSE <<"<none>">>
             rest == ImageRecords(Tail(images))
         IN  IF ~image.hasSize THEN [ok |-> FALSE, list |-> <<>>]
             ELSE [ok |-> rest.ok, list |-> TagRecords(image, tags) \o rest.list]

\* list_local_images()
ListLocalImagesOp(client, answer) ==
    IF client = "None" THEN [ret |-> PyList(<<>>), raised |-> NoException]
    ELSE IF answer.raises THEN [ret |-> PyList(<<>>), raised |-> NoException]
    ELSE IF ~ImageRecords(answer.images).ok
    THEN [ret |-> PyList(<<>>), raised |-> NoException]
    ELSE [ret |-> PyList(ImageRecords(answer.images).list), raised |-> NoException]

ListLocalImages ==
    \E answer \in RuntimeAnswers :
        LET r == ListLocalImagesOp(docker_client, answer)
        IN  /\ last' = [op |-> "list_local_images", env |-> answer, ret |-> r.ret,
                        raised |-> r.raised, cmds |-> <<>>]
            /\ UNCHANGED <<dbExists, dbEntries, resultsDir, docker_client, summaryVars>>

\* -------------------------------------------------- scan_multiple_images
\* results[image] = result
DictPut(d, k, v) == [x \in (DOMAIN d) \cup {k} |-> IF x = k THEN v ELSE d[x]]

\* one pass of the loop body: scan_image(image, format=format, severity=severity)
BatchScan(exists, entries, results, image, format, severity, out) ==
    ScanImageOp(exists, entries, results,
                [image |-> image, format |-> format, severity |-> severity,
                 vuln_type |-> NoneOpt, output_file |-> NoFileArg], out)

RECURSIVE ScanLoopStopOnFailure(_, _, _, _, _, _, _, _)
\* the loop leaving at the first scan that returns None
ScanLoopStopOnFailure(exists, entries, results, images, format, severity, outs, acc) ==
    IF images = <<>> THEN acc
    ELSE LET r == BatchScan(exists, entries, results, Head(images), format,
                            severity, Head(outs))
             next == [results |-> DictPut(acc.results, Head(images), r.ret),
                      calls |-> Append(acc.calls,
                                       [image |-> Head(images), ret |-> r.ret,
                                        raised |-> r.raised, cmds |-> r.cmds,
                                        env |-> Head(outs)])]
         IN  IF r.ret.kind = "None" THEN next
             ELSE ScanLoopStopOnFailure(exists, entries, r.results, Tail(images),
                                        format, severity, Tail(outs), next)

RECURSIVE ScanLoop(_, _, _, _, _, _, _, _)
\* the for loop of scan_multiple_images over the images not scanned yet, outs
\* being what the world answers to each scan; acc holds the mapping built so
\* far and the scan_image calls made so far
ScanLoop(exists, entries, results, images, format, severity, outs, acc) ==
    IF images = <<>> THEN acc
    ELSE LET r == BatchScan(exists, entries, results, Head(images), format,
                            severity, Head(outs))
         IN  ScanLoop(exists, entries, r.results, Tail(images), format, severity,
                      Tail(outs),
                      [results |-> DictPut(acc.results, Head(images), r.ret),
                       calls |-> Append(acc.calls,
                                        [image |-> Head(images), ret |-> r.ret,
                                         raised |-> r.raised, cmds |-> r.cmds,
                                         env |-> Head(outs)])])

\* scan_multiple_images(images, format, severity)
ScanMultipleImagesOp(exists, entries, results, images, format, severity, outs) ==
    ScanLoop(exists, entries, results, images, format, severity, outs,
             [results |-> <<>>, calls |-> <<>>])

\* the image lists of at most n entries
ImageLists(n) == UNION {[1..k -> Images] : k \in 0..n}
\* what the world answers to the scans of a batch
BatchOutcomes ==
    {[proc |-> NonZero, stdout |-> ""],
     [proc |-> ExitZero, stdout |-> "{\"Results\":[]}"],
     [proc |-> ExitZero, stdout |-> "Total: 0 (CRITICAL: 0)"]}

ScanMultipleImages ==
    \E images \in ImageLists(MaxImages), format \in Formats,
       severity \in {Some(<<"CRITICAL", "HIGH">>)} :
        \E outs \in [1..Len(images) -> BatchOutcomes] :
            LET r == ScanMultipleImagesOp(dbExists, dbEntries, resultsDir, images,
                                          format, severity, outs)
            IN  /\ last' = [op |-> "scan_multiple_images", images |-> images,
                            format |-> format, severity |-> severity,
                            ret |-> r.results, calls |-> r.calls,
                            raised |-> NoException]
                /\ UNCHANGED <<dbExists, dbEntries, resultsDir, docker_client,
                               summaryVars>>

\* --------------------------------------------- get_vulnerability_summary
\* the keys of the summary get_vulnerability_summary starts from
SeverityLabels == {"CRITICAL", "HIGH", "MEDIUM", "LOW", "UNKNOWN"}
\* a vulnerability entry is modelled by its "Severity"; this one has no such key
MissingSeverity == "<missing>"
\* the severities a vulnerability entry of a scan output may carry
ReportedSeverities == SeverityLabels \cup {MissingSeverity, "NEGLIGIBLE", "total"}

SeqsUpTo(S, n) == UNION {[1..k -> S] : k \in 0..n}

\* a result target: null, a dict without "Vulnerabilities", a dict whose
\* "Vulnerabilities" is null, or a dict with a list of vulnerability entries
ResultTargets ==
    {[kind |-> k, vulns |-> <<>>] :
        k \in {"null", "dict-without-Vulnerabilities", "Vulnerabilities-null"}}
    \cup {[kind |-> "dict", vulns |-> v] : v \in SeqsUpTo(ReportedSeverities, MaxVulns)}

\* the documents handed to get_vulnerability_summary: None, {}, a dict without
\* "Results", a top-level list, and a dict whose "Results" is null, a number, a
\* string or a list of result targets
SummaryInputs ==
    {[kind |-> k, results |-> [kind |-> "absent", items |-> <<>>]] :
        k \in {"None", "empty-dict", "dict-without-Results", "list"}}
    \cup {[kind |-> "dict", results |-> [kind |-> k, items |-> <<>>]] :
            k \in {"null", "int", "str"}}
    \cup {[kind |-> "dict", results |-> [kind |-> "list", items |-> t]] :
            t \in SeqsUpTo(ResultTargets, MaxTargets)}

\* summary = {"CRITICAL": 0, ..., "total": 0}
EmptySummary == [k \in SeverityLabels \cup {"total"} |-> 0]

\* the body of the inner loop, for one vulnerability entry
CountVulnerability(sum, vuln) ==
    LET severity == IF vuln = MissingSeverity THEN "UNKNOWN" ELSE vuln
        counted == DictPut(sum, severity,
                           (IF severity \in DOMAIN sum THEN sum[severity] ELSE 0) + 1)
    IN  [counted EXCEPT !["total"] = @ + 1]

RECURSIVE CountVulnerabilities(_, _)
\* for vuln in result["Vulnerabilities"]
CountVulnerabilities(sum, vulns) ==
    IF vulns = <<>> THEN sum
    ELSE CountVulnerabilities(CountVulnerability(sum, Head(vulns)), Tail(vulns))

RECURSIVE CountResults(_, _)
\* for result in scan_results["Results"], over a list: `"Vulnerabilities" in
\* result` raises TypeError for a null target
CountResults(sum, targets) ==
    IF targets = <<>> THEN [raised |-> NoException, counts |-> sum]
    ELSE LET result == Head(targets)
         IN  IF result.kind = "null"
             THEN [raised |-> "TypeError", counts |-> sum]
             ELSE IF result.kind = "dict" /\ result.vulns # <<>>
             THEN CountResults(CountVulnerabilities(sum, result.vulns), Tail(targets))
             ELSE CountResults(sum, Tail(targets))

\* get_vulnerability_summary(scan_results): the summary returned, or the
\* exception that leaves the method
GetVulnerabilitySummaryOp(doc) ==
    IF doc.kind \in {"None", "empty-dict", "dict-without-Results", "list"}
    THEN [raised |-> NoException, counts |-> EmptySummary]
    ELSE IF doc.results.kind \in {"null", "int"}
    THEN [raised |-> "TypeError", counts |-> EmptySummary]
    ELSE IF doc.results.kind = "str"
    THEN [raised |-> NoException, counts |-> EmptySummary]
    ELSE CountResults(EmptySummary, doc.results.items)

Pending == [state |-> "pending", raised |-> NoException, counts |-> EmptySummary]

GetVulnerabilitySummary ==
    /\ summary = Pending
    /\ LET r == GetVulnerabilitySummaryOp(scan_results)
       IN  summary' = [state |-> "done", raised |-> r.raised, counts |-> r.counts]
    /\ UNCHANGED <<scannerVars, scan_results>>

\* ------------------------------------------------------------ construction
\* __init__: the three directories exist (mkdir, exist_ok), the database
\* directory holding whatever it held before; the docker client is None when
\* docker.from_env() raised
Init ==
    /\ dbExists = TRUE
    /\ dbEntries \in SUBSET AllEntries
    /\ resultsDir = [f \in OutputFiles |-> NoFile]
    /\ docker_client \in {"client", "None"}
    /\ last = [op |-> "__init__", ret |-> None, raised |-> NoException, cmds |-> <<>>]
    /\ scan_results = None
    /\ summary = None

Next ==
    \/ SetupDatabase
    \/ UpdateDatabase
    \/ ScanImage
    \/ ListLocalImages

Spec == Init /\ [][Next]_vars

\* a scanner whose database directory is empty or staged, running batches
InitBatch ==
    /\ dbExists = TRUE
    /\ dbEntries \in {{}, ImageTree}
    /\ resultsDir = [f \in OutputFiles |-> NoFile]
    /\ docker_client = "client"
    /\ last = [op |-> "__init__", ret |-> None, raised |-> NoException, cmds |-> <<>>]
    /\ scan_results = None
    /\ summary = None

NextBatch == ScanMultipleImages

SpecBatch == InitBatch /\ [][NextBatch]_vars

\* a scanner handed one scan output to summarise
InitSummary ==
    /\ dbExists = TRUE
    /\ dbEntries = ImageTree
    /\ resultsDir = [f \in OutputFiles |-> NoFile]
    /\ docker_client = "client"
    /\ last = [op |-> "__init__", ret |-> None, raised |-> NoException, cmds |-> <<>>]
    /\ scan_results \in SummaryInputs
    /\ summary = Pending

NextSummary == GetVulnerabilitySummary

SpecSummary == InitSummary /\ [][NextSummary]_vars

\* ------------------------------------------------------------------ claims
\* the database directory is absent or has no entries
DatabaseMissing == ~dbExists \/ dbEntries = {}

\* cmd holds a directly followed by b, before position limit
OptionBefore(cmd, a, b, limit) ==
    \E i \in 1..(Len(cmd) - 1) : cmd[i] = a /\ cmd[i + 1] = b /\ i + 1 < limit

\* where the scanner's own image is named in cmd (0 when it is not)
ScannerAt(cmd) ==
    IF \E i \in 1..Len(cmd) : cmd[i] = "aquasec/trivy:latest"
    THEN CHOOSE i \in 1..Len(cmd) : cmd[i] = "aquasec/trivy:latest"
    ELSE 0

\* C1: a scan_image call made while the database directory is absent or has
\* no entries returns None, makes no subprocess.run call at all (so it
\* launches neither the scanner nor the pull and extraction of setup) and
\* leaves the database directory as it was.
C1_MissingDatabaseNoScan ==
    [][ (last'.op = "scan_image" /\ DatabaseMissing)
            => /\ last'.ret.kind = "None"
               /\ last'.raised = NoException
               /\ last'.cmds = <<>>
               /\ dbExists' = dbExists
               /\ dbEntries' = dbEntries ]_vars

\* a scan asked for while the database directory does not exist, which the
\* scanner would have answered
C1_Witness ==
    /\ last.op = "scan_image"
    /\ ~dbExists
    /\ last.env.proc = ExitZero
    /\ last.ret.kind = "None"
    /\ last.cmds = <<>>

\* C2: every argv scan_image hands to subprocess.run mounts the control
\* socket read-only and the database directory read-only at /trivy-db, sets
\* TRIVY_DB_REPOSITORY=file:///trivy-db and TRIVY_SKIP_UPDATE=true (all of
\* them docker options, before the scanner image), gives --format, then
\* --severity and --vuln-type when asked for, and ends with the image.
C2_OfflineInvocation ==
    last.op = "scan_image" =>
        \A n \in 1..Len(last.cmds) :
            LET cmd == last.cmds[n]
                at == ScannerAt(cmd)
                end == Len(cmd)
            IN  /\ at > 0
                /\ OptionBefore(cmd, "-v", "/var/run/docker.sock:/var/run/docker.sock:ro", at)
                /\ OptionBefore(cmd, "-v", db_path \o ":/trivy-db:ro", at)
                /\ OptionBefore(cmd, "-e", "TRIVY_DB_REPOSITORY=file:///trivy-db", at)
                /\ OptionBefore(cmd, "-e", "TRIVY_SKIP_UPDATE=true", at)
                /\ cmd[end] = last.req.image
                /\ \A i \in 1..(end - 1) : cmd[i] # last.req.image
                /\ cmd[at + 1] = "image"
                /\ OptionBefore(cmd, "--format", last.req.format, end)
                /\ (last.req.severity.items = <<"CRITICAL", "HIGH">>
                        => OptionBefore(cmd, "--severity", "CRITICAL,HIGH", end))
                /\ (last.req.vuln_type.items = <<"os", "library">>
                        => OptionBefore(cmd, "--vuln-type", "os,library", end))
                /\ \A i \in (at + 1)..(end - 1) :
                        cmd[i] \in {"--format", "--severity", "--vuln-type"} => i + 1 < end

\* a scan that launched the scanner with both filters set
C2_Witness ==
    /\ last.op = "scan_image"
    /\ Len(last.cmds) = 1
    /\ Truthy(last.req.severity)
    /\ Truthy(last.req.vuln_type)
    /\ last.req.image = "redis:7"

\* the scan of one batch entry failed: no database, a non-zero exit, a
\* launch failure, or json output that does not decode
BatchScanFailed(call, format) ==
    \/ DatabaseMissing
    \/ call.env.proc # ExitZero
    \/ (format = "json" /\ ~JsonLoads(call.env.stdout).ok)

\* C5: scan_multiple_images calls scan_image once per entry of the list, in
\* list order, whatever the earlier scans returned; the mapping returned has
\* exactly the images of the list as keys, each holding the result of the
\* (last) scan of that image, which is None when that scan failed and the
\* decoded document or the text otherwise.
C5_BatchScansEveryImage ==
    last.op = "scan_multiple_images" =>
        LET n == Len(last.images) IN
        /\ last.raised = NoException
        /\ Len(last.calls) = n
        /\ \A i \in 1..n : last.calls[i].image = last.images[i]
        /\ \A i \in 1..n : last.calls[i].raised = NoException
        /\ \A i \in 1..n : DatabaseMissing <=> last.calls[i].cmds = <<>>
        /\ DOMAIN last.ret = {last.images[i] : i \in 1..n}
        /\ \A i \in 1..n :
              (\A j \in (i + 1)..n : last.images[j] # last.images[i])
                  => last.ret[last.images[i]] = last.calls[i].ret
        /\ \A i \in 1..n :
              IF BatchScanFailed(last.calls[i], last.format)
              THEN last.calls[i].ret.kind = "None"
              ELSE last.calls[i].ret.kind = (IF last.format = "json" THEN "dict" ELSE "str")

\* a batch whose first scan failed and whose second scan, of another image,
\* gave a result
C5_Witness ==
    /\ last.op = "scan_multiple_images"
    /\ Len(last.images) = 2
    /\ last.images[1] # last.images[2]
    /\ last.calls[1].env.proc = NonZero
    /\ last.ret[last.images[1]].kind = "None"
    /\ last.ret[last.images[2]].kind = "dict"

\* scan_image ran the scanner with the json format, the scanner exited zero
\* and its stdout does not decode
DecodeFailed ==
    /\ last.op = "scan_image"
    /\ last.cmds # <<>>
    /\ last.req.format = "json"
    /\ last.env.proc = ExitZero
    /\ ~JsonLoads(last.env.stdout).ok

\* what scan_image answers to the same request when the scanner exits non-zero
FailedScan == ScanImageOp(TRUE, ImageTree, resultsDir, last.req, [proc |-> NonZero, stdout |-> ""])

\* C6, as claimed: the outcome of a decode failure (what scan_image returns
\* or raises) differs from the outcome of a failed scan of the same request.
C6_DistinctParsingError ==
    DecodeFailed => <<last.ret, last.raised>> # <<FailedScan.ret, FailedScan.raised>>

\* C6, amended: on a decode failure scan_image raises nothing and returns
\* None, exactly what it returns for a failed scan of the same request; the
\* output file, when one was asked for, has been written by then.
C6_DecodeFailureReturnsNone ==
    DecodeFailed =>
        /\ last.raised = NoException
        /\ last.ret.kind = "None"
        /\ <<last.ret, last.raised>> = <<FailedScan.ret, FailedScan.raised>>
        /\ (last.req.output_file \in OutputFiles
                => resultsDir[last.req.output_file] = last.env.stdout)

\* a decode failure of a scan that was to save its output
C6_Witness ==
    /\ DecodeFailed
    /\ last.req.output_file = "report.json"
    /\ last.ret.kind = "None"

\* the external process of the last operation failed
ProcessFailed ==
    \/ (last.op = "setup_database"
            /\ (last.env.pull # ExitZero \/ last.env.run # ExitZero))
    \/ (last.op = "update_database"
            /\ (last.env.pull # ExitZero \/ last.env.setup.pull # ExitZero
                    \/ last.env.setup.run # ExitZero))
    \/ (last.op = "scan_image" /\ last.cmds # <<>> /\ last.env.proc # ExitZero)
    \/ (last.op = "list_local_images" /\ (docker_client = "None" \/ last.env.raises))

\* C7, as claimed: no operation lets an exception reach its caller, and when
\* its external process failed setup and update return False, scan_image
\* returns None and list_local_images returns the empty list.
C7_NoExceptionPropagates ==
    /\ last.raised = NoException
    /\ (ProcessFailed /\ last.op \in {"setup_database", "update_database"}
            => last.ret = PyBool(FALSE))
    /\ (ProcessFailed /\ last.op = "scan_image" => last.ret.kind = "None")
    /\ (ProcessFailed /\ last.op = "list_local_images"
            => last.ret.kind = "list" /\ last.ret.val = <<>>)

\* C8, as claimed: after update_database has returned, the database
\* directory exists.
C8_UpdateLeavesDirectory ==
    last.op = "update_database" => dbExists

\* C9: a scan_image call changes the results directory only when the scanner
\* was run and exited zero; on a non-zero exit it returns None and every path
\* of the results directory is as before, an output file asked for or not;
\* on exit zero the output file asked for holds the captured stdout and the
\* other paths are as before.
C9_OutputOnlyAfterExitZero ==
    [][ last'.op = "scan_image" =>
          /\ (resultsDir' # resultsDir => last'.cmds # <<>> /\ last'.env.proc = ExitZero)
          /\ (last'.cmds # <<>> /\ last'.env.proc = NonZero
                => last'.ret.kind = "None" /\ resultsDir' = resultsDir)
          /\ (last'.cmds # <<>> /\ last'.env.proc = ExitZero
                => \A f \in OutputFiles :
                      resultsDir'[f] = IF f = last'.req.output_file
                                       THEN last'.env.stdout
                                       ELSE resultsDir[f]) ]_vars

\* a failed scan that was to save its output, with the file of an earlier
\* scan still in place
C9_Witness ==
    /\ last.op = "scan_image"
    /\ last.cmds # <<>>
    /\ last.env.proc = NonZero
    /\ last.req.output_file = "report.json"
    /\ resultsDir["report.json"] \in Stdouts

\* i comes before j wherever steps holds a and b
StepBefore(steps, a, b) ==
    \A i, j \in 1..Len(steps) : steps[i] = a /\ steps[j] = b => i < j

\* C10: update_database pulls first, deletes and recreates the database
\* directory only after that, and extracts only after that; when the pull
\* fails (non-zero exit or no launch) it returns False having made no other
\* call, and the database directory and its entries are as before.
C10_PullFailureKeepsDatabase ==
    [][ last'.op = "update_database" =>
          /\ last'.steps[1] = "pull"
          /\ \A i \in 1..Len(last'.steps) :
                last'.steps[i] \in {"rmtree", "mkdir", "extract"} => i > 1
          /\ StepBefore(last'.steps, "rmtree", "mkdir")
          /\ StepBefore(last'.steps, "rmtree", "extract")
          /\ StepBefore(last'.steps, "mkdir", "extract")
          /\ (last'.env.pull # ExitZero
                => /\ last'.ret = PyBool(FALSE)
                   /\ last'.raised = NoException
                   /\ last'.steps = <<"pull">>
                   /\ last'.cmds = <<PullCommand>>
                   /\ dbExists' = dbExists
                   /\ dbEntries' = dbEntries)
          /\ (dbExists' # dbExists \/ dbEntries' # dbEntries
                => last'.env.pull = ExitZero) ]_vars

\* an update whose pull failed, over a database directory with stale and
\* current entries
C10_Witness ==
    /\ last.op = "update_database"
    /\ last.env.pull = NonZero
    /\ last.ret = PyBool(FALSE)
    /\ dbEntries = AllEntries

RECURSIVE SumLen(_)
\* the number of vulnerability entries of a list of result targets
SumLen(targets) ==
    IF targets = <<>> THEN 0 ELSE Len(Head(targets).vulns) + SumLen(Tail(targets))

RECURSIVE Unlabelled(_)
\* the number of those whose severity is missing, UNKNOWN or no label at all
Unlabelled(targets) ==
    IF targets = <<>> THEN 0
    ELSE Cardinality({i \in 1..Len(Head(targets).vulns) :
                        Head(targets).vulns[i] \notin SeverityLabels \ {"UNKNOWN"}})
         + Unlabelled(Tail(targets))

\* scan_results is a structured scan output with a result list
HasResultList ==
    /\ scan_results.kind = "dict"
    /\ scan_results.results.kind = "list"
    /\ \A i \in 1..Len(scan_results.results.items) :
          scan_results.results.items[i].kind # "null"

\* C3, as claimed: for a scan output with a result list the summary's total is
\* the sum of the five severity counts and the number of vulnerability
\* entries, and UNKNOWN counts the entries whose severity is missing or is
\* none of the five labels.
C3_TotalIsSumOfBuckets ==
    (summary # Pending /\ HasResultList) =>
        /\ summary.raised = NoException
        /\ summary.counts["total"]
              = summary.counts["CRITICAL"] + summary.counts["HIGH"]
                + summary.counts["MEDIUM"] + summary.counts["LOW"]
                + summary.counts["UNKNOWN"]
        /\ summary.counts["total"] = SumLen(scan_results.results.items)
        /\ summary.counts["UNKNOWN"] = Unlabelled(scan_results.results.items)

\* C4, as claimed: get_vulnerability_summary raises for no input, and for an
\* input without a result list (None, {}, no "Results", "Results" null or not
\* a list) or whose targets carry no vulnerability list it returns the six
\* zero counts.
C4_SummaryNeverFails ==
    summary # Pending =>
        /\ summary.raised = NoException
        /\ (~HasResultList \/ SumLen(scan_results.results.items) = 0
                => summary.counts = EmptySummary)
====
